---- MODULE Spec2Model ----
(***************************************************************************)
(* Dubai real-estate price prediction service (chart/app).                 *)
(*                                                                         *)
(* Two specifications over one set of variables:                           *)
(*   Spec      the process: the module-level singleton of model.py         *)
(*             (get_model, DubaiRealEstateModel.__init__/load_model) and   *)
(*             the handlers of main.py, run by concurrent callers;         *)
(*   SpecPure  the prediction pipeline as pure functions of one request    *)
(*             (encode_features, DummyModel.predict, predict_sale_price,   *)
(*             predict_rent_price), inputs drawn in the initial state.     *)
(*                                                                         *)
(* Fixed-point units (TLC has integers only; floats are modelled as the    *)
(* exact rationals they approximate):                                      *)
(*   area_sqft            quarter square feet   (4800 = 1200.0 sqft)       *)
(*   location/property    tenths                (14   = 1.4)               *)
(*   floor/age normalized fiftieths             (5    = 0.1, 10 = 10/50)   *)
(*   raw model output     eighths of an AED     (exact binary fractions)   *)
(*   rounded money        cents (round(x, 2))                              *)
(*   location_premium     hundredths                                       *)
(***************************************************************************)
EXTENDS Integers, Sequences, FiniteSets, TLC

VARIABLES
    artifact_file,    \* what MODEL_PATH holds: "missing" | "corrupt" | "valid"
    env_version,      \* the MODEL_VERSION environment variable (it may be set
                      \* to the empty string), or UNSET
    model_instance,   \* model.py global: 0 is None, else an index into heap
    heap,             \* every DubaiRealEstateModel object constructed so far
    pc,               \* per caller: position inside its call
    tmp,              \* per caller: the object its get_model() is constructing
    local,            \* per caller: what get_model() returned to it
    resp,             \* the response of the call that finished last
    returned,         \* every object some get_model() call has returned
    failed,           \* some request has ended with a 500 so far
    p_req,            \* SpecPure: the request under study
    p_out             \* SpecPure: the last value the pipeline produced

vars == <<artifact_file, env_version, model_instance, heap, pc, tmp, local,
          resp, returned, failed, p_req, p_out>>

sysvars == <<artifact_file, env_version, model_instance, heap, pc, tmp,
             local, resp, returned, failed>>

purevars == <<p_req, p_out>>

----------------------------------------------------------------------------
(* Bounds *)

NumCallers == 2
MaxBedrooms == 2
MaxFloor == 5          \* largest floor and building age of StoreyRequests

Callers == 1..NumCallers

----------------------------------------------------------------------------
(* Python values *)

None == "<None>"
UNSET == "<unset>"

\* dict.get(key, default)
Get(d, key, default) == IF key \in DOMAIN d THEN d[key] ELSE default

\* os.getenv(name, default) on the value v of the variable
getenv(v, default) == IF v = UNSET THEN default ELSE v

\* int(b) for a bool
BoolInt(b) == IF b THEN 1 ELSE 0

Abs(x) == IF x < 0 THEN 0 - x ELSE x

\* round(n/d) to the nearest integer, ties to even (Python's round), n >= 0, d > 0
RoundDiv(n, d) ==
    LET q == n \div d
        r == n % d
    IN  IF 2 * r < d THEN q
        ELSE IF 2 * r > d THEN q + 1
        ELSE IF q % 2 = 0 THEN q ELSE q + 1

RECURSIVE SumFrom(_, _)
\* sum(row[i:]) with i 1-based here
SumFrom(row, i) == IF i > Len(row) THEN 0 ELSE row[i] + SumFrom(row, i + 1)

----------------------------------------------------------------------------
(* model.py: the prediction pipeline *)

\* encode_features' location table (tenths)
encode_location_map ==
    [dubai_marina |-> 10, downtown |-> 12, business_bay |-> 11,
     jlt |-> 9, jbr |-> 10, difc |-> 13, palm_jumeirah |-> 14,
     emirates_hills |-> 12, arabian_ranches |-> 8, dubai_hills |-> 9,
     motor_city |-> 7]

\* encode_features' property type table (tenths)
property_type_map ==
    [apartment |-> 10, villa |-> 15, townhouse |-> 12,
     studio |-> 7, penthouse |-> 18]

\* _get_location_factor's own copy of the location table (tenths)
premium_location_map ==
    [dubai_marina |-> 10, downtown |-> 12, business_bay |-> 11,
     jlt |-> 9, jbr |-> 10, difc |-> 13, palm_jumeirah |-> 14,
     emirates_hills |-> 12, arabian_ranches |-> 8, dubai_hills |-> 9,
     motor_city |-> 7]

NoneInt == 0 - 1

\* the same with the test `x is not None` in place of the truth test: 0 is
\* a value like any other and encodes as 0 / 50.0
Normalized_none_only(x) == IF x # NoneInt THEN x ELSE 5

\* x / 50.0 if x else 0.1, in fiftieths; x is request_data.get(key)
Normalized(x) == IF x # NoneInt /\ x # 0 THEN x ELSE 5

\* encode_features with bathrooms and bedrooms in each other's place
encode_features_swapped(request_data) ==
    LET location_factor ==
            Get(encode_location_map, Get(request_data, "location", "dubai_marina"), 10)
        property_factor ==
            Get(property_type_map, Get(request_data, "property_type", "apartment"), 10)
    IN  << Get(request_data, "bathrooms", 0),
           Get(request_data, "bedrooms", 0),
           Get(request_data, "area_sqft", 1000 * 4),
           location_factor,
           property_factor,
           Normalized(Get(request_data, "floor", NoneInt)),
           Normalized(Get(request_data, "building_age_years", NoneInt)),
           BoolInt(Get(request_data, "has_parking", TRUE)),
           BoolInt(Get(request_data, "has_balcony", FALSE)),
           BoolInt(Get(request_data, "has_gym", FALSE)),
           BoolInt(Get(request_data, "has_pool", FALSE)),
           BoolInt(Get(request_data, "near_metro", FALSE)),
           BoolInt(Get(request_data, "furnished", FALSE)) >>

\* DubaiRealEstateModel.encode_features: the 13 features, position i here is
\* index i-1 of the numpy row
encode_features(request_data) ==
    LET location_factor ==
            Get(encode_location_map, Get(request_data, "location", "dubai_marina"), 10)
        property_factor ==
            Get(property_type_map, Get(request_data, "property_type", "apartment"), 10)
    IN  << Get(request_data, "bedrooms", 0),
           Get(request_data, "bathrooms", 0),
           Get(request_data, "area_sqft", 1000 * 4),
           location_factor,
           property_factor,
           Normalized(Get(request_data, "floor", NoneInt)),
           Normalized(Get(request_data, "building_age_years", NoneInt)),
           BoolInt(Get(request_data, "has_parking", TRUE)),
           BoolInt(Get(request_data, "has_balcony", FALSE)),
           BoolInt(Get(request_data, "has_gym", FALSE)),
           BoolInt(Get(request_data, "has_pool", FALSE)),
           BoolInt(Get(request_data, "near_metro", FALSE)),
           BoolInt(Get(request_data, "furnished", FALSE)) >>

\* DummyModel.predict summing row[8:] instead of row[7:]: has_parking dropped
DummyPredict_skip_parking(row) ==
    LET base_price == 500000
        location_factor == row[4] * 15
        size_factor == row[3] * 12
        amenities == SumFrom(row, 9) * 50000
    IN  8 * base_price
        + (location_factor * 200000 * 8) \div 100
        + (size_factor * (300000 \div 1000) * 8) \div 40
        + 8 * amenities

\* DummyModel.predict reading row[4], the property factor, where the source
\* reads row[3], the location factor
DummyPredict_property_factor(row) ==
    LET base_price == 500000
        location_factor == row[5] * 15
        size_factor == row[3] * 12
        amenities == SumFrom(row, 8) * 50000
    IN  8 * base_price
        + (location_factor * 200000 * 8) \div 100
        + (size_factor * (300000 \div 1000) * 8) \div 40
        + 8 * amenities

\* DummyModel.predict on one row, in eighths of an AED.  row[4] is the
\* source's row[3], row[3] its row[2], SumFrom(row, 8) its sum(row[7:]).
DummyPredict(row) ==
    LET base_price == 500000
        location_factor == row[4] * 15                 \* hundredths
        size_factor == row[3] * 12                     \* 1/40000ths
        amenities == SumFrom(row, 8) * 50000
    IN  8 * base_price
        + (location_factor * 200000 * 8) \div 100
        + (size_factor * (300000 \div 1000) * 8) \div 40
        + 8 * amenities

\* self.model.predict(features)[0], eighths of an AED: the heuristic, or
\* what the deserialised artifact answers for these features (oracle)
ModelPredict(model, features, oracle) ==
    IF model = "DummyModel" THEN DummyPredict(features) ELSE oracle

\* _get_location_factor defaulting to 0.0 for an unknown location
GetLocationFactor_default0(location) == Get(premium_location_map, location, 0)

\* DubaiRealEstateModel._get_location_factor
GetLocationFactor(location) == Get(premium_location_map, location, 10)

\* predict_sale_price dividing by the default area, not the request's
predict_sale_price_default_area(self, request_data, oracle) ==
    LET features == encode_features(request_data)
        prediction == ModelPredict(self.model, features, oracle)
        location_factor ==
            GetLocationFactor(Get(request_data, "location", "dubai_marina"))
    IN  [predicted_price_aed |-> RoundDiv(prediction * 100, 8),
         price_per_sqft_aed |-> RoundDiv(prediction * 50, 1000 * 4),
         location_premium |-> (location_factor - 10) * 10,
         confidence_score |-> 85,
         model_version |-> self.model_version]

\* DubaiRealEstateModel.predict_sale_price; money in cents, premium in
\* hundredths, confidence in hundredths.  prediction_timestamp (the clock)
\* is left out.
predict_sale_price(self, request_data, oracle) ==
    LET features == encode_features(request_data)
        prediction == ModelPredict(self.model, features, oracle)
        area_sqft == Get(request_data, "area_sqft", 1000 * 4)
        price_per_sqft == IF area_sqft > 0
                          THEN RoundDiv(prediction * 50, area_sqft)
                          ELSE 0
        location_factor ==
            GetLocationFactor(Get(request_data, "location", "dubai_marina"))
    IN  [predicted_price_aed |-> RoundDiv(prediction * 100, 8),
         price_per_sqft_aed |-> price_per_sqft,
         location_premium |-> (location_factor - 10) * 10,
         confidence_score |-> 85,
         model_version |-> self.model_version]

\* predict_rent_price with a 7% yield
predict_rent_price_yield7(self, request_data, oracle) ==
    LET sale_prediction == predict_sale_price(self, request_data, oracle)
        annual_rent == sale_prediction.predicted_price_aed * 7
        contract_type == Get(request_data, "contract_type", "annual")
        area_sqft == Get(request_data, "area_sqft", 1000 * 4)
    IN  IF contract_type = "monthly"
        THEN [predicted_price_aed |-> RoundDiv(annual_rent, 100 * 12),
              price_per_sqft_aed |-> RoundDiv(annual_rent, 25 * 12 * area_sqft),
              rental_type |-> "monthly"] @@ sale_prediction
        ELSE [predicted_price_aed |-> RoundDiv(annual_rent, 100),
              price_per_sqft_aed |-> RoundDiv(annual_rent, 25 * area_sqft),
              rental_type |-> "annual"] @@ sale_prediction

\* predict_rent_price whose monthly branch forgets to divide by 12
predict_rent_price_monthly_undivided(self, request_data, oracle) ==
    LET sale_prediction == predict_sale_price(self, request_data, oracle)
        annual_rent == sale_prediction.predicted_price_aed * 8
        contract_type == Get(request_data, "contract_type", "annual")
        area_sqft == Get(request_data, "area_sqft", 1000 * 4)
    IN  IF contract_type = "monthly"
        THEN [predicted_price_aed |-> RoundDiv(annual_rent, 100),
              price_per_sqft_aed |-> RoundDiv(annual_rent, 25 * area_sqft),
              rental_type |-> "monthly"] @@ sale_prediction
        ELSE [predicted_price_aed |-> RoundDiv(annual_rent, 100),
              price_per_sqft_aed |-> RoundDiv(annual_rent, 25 * area_sqft),
              rental_type |-> "annual"] @@ sale_prediction

\* DubaiRealEstateModel.predict_rent_price.  annual_rent is
\* predicted_price_aed * 0.08, i.e. cents * 8 / 100; per sqft divides by
\* area_sqft / 4, so annual/area in cents is cents * 8 / (25 * area_sqft).
predict_rent_price(self, request_data, oracle) ==
    LET sale_prediction == predict_sale_price(self, request_data, oracle)
        annual_rent == sale_prediction.predicted_price_aed * 8   \* 1/100 cent
        contract_type == Get(request_data, "contract_type", "annual")
        area_sqft == Get(request_data, "area_sqft", 1000 * 4)
    IN  IF contract_type = "monthly"
        THEN [predicted_price_aed |-> RoundDiv(annual_rent, 100 * 12),
              price_per_sqft_aed |-> RoundDiv(annual_rent, 25 * 12 * area_sqft),
              rental_type |-> "monthly"] @@ sale_prediction
        ELSE [predicted_price_aed |-> RoundDiv(annual_rent, 100),
              price_per_sqft_aed |-> RoundDiv(annual_rent, 25 * area_sqft),
              rental_type |-> "annual"] @@ sale_prediction

\* train_model.feature_columns
feature_columns ==
    << "bedrooms", "bathrooms", "area_sqft", "location_factor", "property_factor",
       "floor_norm", "age_norm", "has_parking", "has_balcony",
       "has_gym", "has_pool", "near_metro", "furnished" >>

----------------------------------------------------------------------------
(* Inputs *)

\* a SalePredictionRequest as request.dict() yields it: every key present,
\* the Optional ones None when not given
Request(pt, bd, bt, ar, loc, fl, age, am) ==
    [property_type |-> pt, bedrooms |-> bd, bathrooms |-> bt, area_sqft |-> ar,
     location |-> loc, floor |-> fl, building_age_years |-> age,
     has_parking |-> "has_parking" \in am, has_balcony |-> "has_balcony" \in am,
     has_gym |-> "has_gym" \in am, has_pool |-> "has_pool" \in am,
     near_metro |-> "near_metro" \in am, furnished |-> "furnished" \in am]

\* apartment, dubai_marina, 2 bed, 2 bath, 1200 sqft, floor 10, age 5, parking
ExampleRequest ==
    Request("apartment", 2, 2, 1200 * 4, "dubai_marina", 10, 5, {"has_parking"})

TableLocations == DOMAIN encode_location_map

\* locations outside the table, as a direct caller of the model may pass them
UnknownLocations == {"sharjah", "Dubai_Marina", None}

Areas == {1200 * 4, 3401, 3}

AmenitySets ==
    { {"has_parking"}, {},
      {"has_balcony", "has_pool", "furnished"}, {"has_gym", "near_metro"},
      {"has_parking", "has_balcony", "has_gym", "has_pool", "near_metro", "furnished"} }

FullRequests ==
    { Request(pt, bd, bt, ar, loc, fl, age, am) :
        pt \in {"apartment", "penthouse"}, bd \in 0..MaxBedrooms, bt \in {1, 2},
        ar \in Areas, loc \in TableLocations \cup UnknownLocations,
        fl \in {NoneInt, 0, 10}, age \in {NoneInt, 0, 5}, am \in AmenitySets }

\* dicts with keys missing, as a direct caller of the model may pass them
PartialRequests ==
    { [area_sqft |-> 1200 * 4, location |-> "difc"],
      [property_type |-> "castle", bedrooms |-> 1, furnished |-> TRUE],
      [location |-> "sharjah", has_parking |-> FALSE, floor |-> 3] }

\* one flat on every storey and of every age from absent and 0 up to MaxFloor
StoreyRequests ==
    { Request("apartment", 1, 1, 1200 * 4, "jlt", fl, age, {}) :
        fl \in {NoneInt} \cup (0..MaxFloor), age \in {NoneInt} \cup (0..MaxFloor) }

PureRequests == FullRequests \cup PartialRequests \cup StoreyRequests

\* what a deserialised artifact may answer, eighths of an AED
TrainedOutputs == {200000 * 8 + 1, 1234567 * 8 + 3, 987654 * 8 + 4}

\* contract_type is a free string in RentPredictionRequest
ContractTypes == {"annual", "monthly", "weekly"}

\* the object predict_* runs on: a fallback instance, or an instance holding
\* an artifact that answers `oracle` for the request under study
PureModels ==
    { [model |-> "DummyModel", model_version |-> "v1.0.0", oracle |-> 0] }
    \cup { [model |-> "Trained", model_version |-> "v1.0.0", oracle |-> o] :
             o \in TrainedOutputs }

----------------------------------------------------------------------------
(* SpecPure: the pipeline applied to one request *)

PureEncode ==
    /\ p_out.kind = "input"
    /\ p_out' = [kind |-> "features", features |-> encode_features(p_req)]
    /\ UNCHANGED <<p_req, sysvars>>

PureSale ==
    /\ p_out.kind = "input"
    /\ \E m \in PureModels :
         p_out' = [kind |-> "sale", self |-> m,
                   features |-> encode_features(p_req),
                   raw |-> ModelPredict(m.model, encode_features(p_req), m.oracle),
                   result |-> predict_sale_price(m, p_req, m.oracle)]
    /\ UNCHANGED <<p_req, sysvars>>

PureRent ==
    /\ p_out.kind = "input"
    /\ \E m \in PureModels, ct \in ContractTypes :
         p_out' = [kind |-> "rent", self |-> m, contract_type |-> ct,
                   result |-> predict_rent_price(
                       m, [contract_type |-> ct] @@ p_req, m.oracle)]
    /\ UNCHANGED <<p_req, sysvars>>

\* predict_rent_price on a dict without the contract_type key
PureRentDefault ==
    /\ p_out.kind = "input"
    /\ "contract_type" \notin DOMAIN p_req
    /\ \E m \in PureModels :
         p_out' = [kind |-> "rent", self |-> m, contract_type |-> UNSET,
                   result |-> predict_rent_price(m, p_req, m.oracle)]
    /\ UNCHANGED <<p_req, sysvars>>

----------------------------------------------------------------------------
(* Spec: the process *)

\* the requests the concurrent callers send
SysRequests(handler) ==
    IF handler = "predict_sale_price"
    THEN { ExampleRequest }
    ELSE { [contract_type |-> "monthly"] @@ ExampleRequest }

\* what the artifact answers them, eighths of an AED
SysOutputs == {1234567 * 8 + 3}

NoResponse == [status |-> 0, handler |-> "none", instance |-> 0,
               after_failure |-> FALSE, raised |-> FALSE, body |-> << >>]

\* DubaiRealEstateModel.__init__ up to the load_model() call
NewInstance(version) ==
    [model |-> None, model_version |-> getenv(version, "v1.0.0"),
     loads |-> 0, at_load |-> "unloaded"]

\* load_model without its try/except: a failing joblib.load escapes
load_model_unguarded(self, file) ==
    IF file = "valid"
    THEN [self |-> [self EXCEPT !.model = "Trained", !.loads = @ + 1],
          raised |-> FALSE]
    ELSE IF file = "missing"
    THEN [self |-> [self EXCEPT !.model = "DummyModel", !.loads = @ + 1],
          raised |-> FALSE]
    ELSE [self |-> [self EXCEPT !.loads = @ + 1], raised |-> TRUE]

\* DubaiRealEstateModel.load_model on what MODEL_PATH holds: one attempt;
\* a missing file and a failing joblib.load both end in the dummy model and
\* nothing is raised
load_model(self, file) ==
    IF file = "valid"
    THEN [self |-> [self EXCEPT !.model = "Trained", !.loads = @ + 1],
          raised |-> FALSE]
    ELSE IF file = "missing"
    THEN [self |-> [self EXCEPT !.model = "DummyModel", !.loads = @ + 1],
          raised |-> FALSE]
    ELSE [self |-> [self EXCEPT !.model = "DummyModel", !.loads = @ + 1],
          raised |-> FALSE]

\* A caller is one call of a handler, and callers are numbered in the order
\* they start.  Every handler begins with get_model() and does nothing of its
\* own before it, so which handler the call belongs to shows only once
\* get_model() has returned.
StartCall(c) ==
    /\ pc[c] = "idle"
    /\ \A d \in Callers : d < c => pc[d] # "idle"
    /\ pc' = [pc EXCEPT ![c] = "check"]
    /\ UNCHANGED <<artifact_file, env_version, model_instance, heap, tmp,
                   local, resp, returned, failed, purevars>>

\* get_model: if model_instance is None
GetModelCheck(c) ==
    /\ pc[c] = "check"
    /\ pc' = [pc EXCEPT ![c] =
           IF model_instance = 0 THEN "construct" ELSE "return"]
    /\ UNCHANGED <<artifact_file, env_version, model_instance, heap, tmp,
                   local, resp, returned, failed, purevars>>

\* the handler's frame is dropped when its call ends
EndCall(c) ==
    /\ pc' = [pc EXCEPT ![c] = "done"]
    /\ tmp' = [tmp EXCEPT ![c] = 0]
    /\ local' = [local EXCEPT ![c] = 0]

\* what every finished call records: the handler, the object get_model()
\* gave it, whether some earlier request had already failed, and whether the
\* artifact's predict raised during the call
Done(c, handler, status, raised, body) ==
    [status |-> status, handler |-> handler, instance |-> local[c],
     after_failure |-> failed, raised |-> raised, body |-> body]

\* get_model: DubaiRealEstateModel(settings.MODEL_PATH).  __init__ makes the
\* object and runs self.load_model() on it; the object is private to the
\* caller until it is assigned.  An exception __init__ let escape would end
\* the call with a 500 and leave model_instance unassigned.
GetModelConstruct(c) ==
    /\ pc[c] = "construct"
    /\ LET r == load_model(NewInstance(env_version), artifact_file)
       IN  /\ heap' = Append(heap, [r.self EXCEPT !.at_load = artifact_file])
           /\ IF r.raised
              THEN /\ EndCall(c)
                   /\ resp' = Done(c, "get_model", 500, FALSE,
                                   [detail |-> "get_model raised"])
                   /\ failed' = TRUE
              ELSE /\ pc' = [pc EXCEPT ![c] = "assign"]
                   /\ tmp' = [tmp EXCEPT ![c] = Len(heap) + 1]
                   /\ UNCHANGED <<local, resp, failed>>
    /\ UNCHANGED <<artifact_file, env_version, model_instance, returned,
                   purevars>>

\* get_model: model_instance = <the new object>
GetModelAssign(c) ==
    /\ pc[c] = "assign"
    /\ model_instance' = tmp[c]
    /\ pc' = [pc EXCEPT ![c] = "return"]
    /\ UNCHANGED <<artifact_file, env_version, heap, tmp, local, resp,
                   returned, failed, purevars>>

\* get_model: return model_instance (the global is read again)
GetModelReturn(c) ==
    /\ pc[c] = "return"
    /\ local' = [local EXCEPT ![c] = model_instance]
    /\ returned' = returned \cup {model_instance}
    /\ pc' = [pc EXCEPT ![c] = "body"]
    /\ UNCHANGED <<artifact_file, env_version, model_instance, heap, tmp,
                   resp, failed, purevars>>

\* main.lifespan after get_model(): logs the version, then yields.  It is
\* the startup hook: only the process's first call can be it.
Lifespan(c) ==
    /\ pc[c] = "body" /\ c = 1
    /\ resp' = Done(c, "lifespan", 0, FALSE,
                    [model_version |-> heap[local[c]].model_version])
    /\ EndCall(c)
    /\ UNCHANGED <<artifact_file, env_version, model_instance, heap,
                   returned, failed, purevars>>

\* main.health_check after get_model()
HealthCheck(c) ==
    /\ pc[c] = "body"
    /\ LET model == heap[local[c]]
       IN  resp' = Done(c, "health_check", 200, FALSE,
               [status |-> IF model.model # None THEN "healthy" ELSE "degraded",
                model_loaded |-> model.model # None,
                model_version |-> IF model.model # None
                                  THEN model.model_version ELSE None])
    /\ EndCall(c)
    /\ UNCHANGED <<artifact_file, env_version, model_instance, heap,
                   returned, failed, purevars>>

\* main.model_info after get_model()
ModelInfo(c) ==
    /\ pc[c] = "body"
    /\ LET model == heap[local[c]]
       IN  resp' = Done(c, "model_info", 200, FALSE,
               [model_version |-> model.model_version,
                model_loaded |-> model.model # None])
    /\ EndCall(c)
    /\ UNCHANGED <<artifact_file, env_version, model_instance, heap,
                   returned, failed, purevars>>

\* predict_* recovering from an inference error by answering with the
\* heuristic instead of raising
Predict_fallback(model, handler, request, raises, oracle) ==
    LET dummy == [model EXCEPT !.model = "DummyModel"]
    IN  [status |-> 200, predict_calls |-> 1,
         body |-> IF handler = "predict_sale_price"
                  THEN predict_sale_price(
                           IF raises THEN dummy ELSE model, request, oracle)
                  ELSE predict_rent_price(
                           IF raises THEN dummy ELSE model, request, oracle)]

\* the try block of main.predict_sale_price / main.predict_rent_price after
\* get_model(): the model's predict_* runs once; predict on a deserialised
\* artifact answers `oracle` or raises, the heuristic never raises; whatever
\* is raised becomes HTTPException(500)
Predict(model, handler, request, raises, oracle) ==
    LET inference_error == model.model # "DummyModel" /\ raises
    IN  IF inference_error
        THEN [status |-> 500, predict_calls |-> 1,
              body |-> [detail |-> "Prediction failed"]]
        ELSE [status |-> 200, predict_calls |-> 1,
              body |-> IF handler = "predict_sale_price"
                       THEN predict_sale_price(model, request, oracle)
                       ELSE predict_rent_price(model, request, oracle)]

PredictHandler(c) ==
    /\ pc[c] = "body"
    /\ \E h \in {"predict_sale_price", "predict_rent_price"},
          raises \in BOOLEAN, oracle \in SysOutputs :
         \E request \in SysRequests(h) :
           LET model == heap[local[c]]
               r == Predict(model, h, request, raises, oracle)
           IN  /\ resp' = Done(c, h, r.status,
                              model.model = "Trained" /\ raises,
                              [predict_calls |-> r.predict_calls] @@ r.body)
               /\ failed' = (failed \/ r.status = 500)
    /\ EndCall(c)
    /\ UNCHANGED <<artifact_file, env_version, model_instance, heap,
                   returned, purevars>>

\* train_model.train_model: joblib.dump writes the artifact the service's
\* default MODEL_PATH names
TrainModel ==
    /\ artifact_file # "valid"
    /\ artifact_file' = "valid"
    /\ UNCHANGED <<env_version, model_instance, heap, pc, tmp, local,
                   resp, returned, failed, purevars>>

SysInit ==
    /\ model_instance = 0
    /\ heap = << >>
    /\ pc = [c \in Callers |-> "idle"]
    /\ tmp = [c \in Callers |-> 0]
    /\ local = [c \in Callers |-> 0]
    /\ resp = NoResponse
    /\ returned = {}
    /\ failed = FALSE

Init ==
    /\ artifact_file \in {"missing", "corrupt", "valid"}
    /\ env_version \in {UNSET, "v2.0.0", ""}
    /\ SysInit
    /\ p_req = ExampleRequest
    /\ p_out = [kind |-> "input"]

Next ==
    \/ \E c \in Callers : StartCall(c)
    \/ \E c \in Callers : GetModelCheck(c)
    \/ \E c \in Callers : GetModelConstruct(c)
    \/ \E c \in Callers : GetModelAssign(c)
    \/ \E c \in Callers : GetModelReturn(c)
    \/ \E c \in Callers : Lifespan(c)
    \/ \E c \in Callers : HealthCheck(c)
    \/ \E c \in Callers : ModelInfo(c)
    \/ \E c \in Callers : PredictHandler(c)
    \/ TrainModel

Spec == Init /\ [][Next]_vars

PureInit ==
    /\ artifact_file = "missing"
    /\ env_version = UNSET
    /\ SysInit
    /\ p_req \in PureRequests
    /\ p_out = [kind |-> "input"]

PureNext == PureEncode \/ PureSale \/ PureRent \/ PureRentDefault

SpecPure == PureInit /\ [][PureNext]_vars

----------------------------------------------------------------------------
(* Claims about the process (Spec) *)

PredictHandlers == {"predict_sale_price", "predict_rent_price"}

\* C1: when several callers run get_model() concurrently while no instance
\* is installed, exactly one DubaiRealEstateModel is constructed, every
\* caller receives that same object, and none receives an object whose model
\* is still unset.  get_model has no lock: two callers can both pass the
\* None check, so this is violated.
C1_OneInstanceConstructed ==
    /\ Len(heap) <= 1
    /\ Cardinality(returned) <= 1
    /\ \A i \in returned : heap[i].model # None

\* C2: once an instance is installed, model_instance keeps naming that
\* object and the object's fields are never changed again.  A caller that
\* passed the None check before the first assignment (C1) still assigns its
\* own object afterwards, so this is violated.
C2_InstalledInstanceNeverChanges ==
    [][model_instance # 0 =>
          /\ model_instance' = model_instance
          /\ heap'[model_instance] = heap[model_instance]]_vars

\* C3 as stated: an object built while the artifact path is missing, or
\* while deserialising it raises, has made exactly one load attempt, holds
\* the fallback heuristic and a non-empty version string, and its
\* construction let no exception escape get_model.
C3_LoadFailureNonEmptyVersion ==
    /\ \A i \in 1..Len(heap) :
         heap[i].at_load \in {"missing", "corrupt"} =>
           /\ heap[i].model = "DummyModel"
           /\ heap[i].loads = 1
           /\ heap[i].model_version # ""
    /\ resp.handler # "get_model"

\* C3 as amended: such an object has made exactly one load attempt, holds
\* the fallback heuristic, and its construction let no exception escape
\* get_model; its version string is os.getenv("MODEL_VERSION", "v1.0.0"):
\* "v1.0.0" when the variable is unset, else the variable's value, so it is
\* non-empty unless MODEL_VERSION is set to the empty string.
C3_LoadFailureInstallsFallback ==
    /\ \A i \in 1..Len(heap) :
         heap[i].at_load \in {"missing", "corrupt"} =>
           /\ heap[i].model = "DummyModel"
           /\ heap[i].loads = 1
           /\ heap[i].model_version =
                IF env_version = UNSET THEN "v1.0.0" ELSE env_version
           /\ env_version # "" => heap[i].model_version # ""
    /\ resp.handler # "get_model"

\* C3 witness: an object built from a corrupt artifact is installed and has
\* served a prediction
C3_Witness ==
    /\ model_instance # 0
    /\ heap[model_instance].at_load = "corrupt"
    /\ resp.instance = model_instance
    /\ resp.handler \in PredictHandlers
    /\ resp.status = 200

\* C4: when predict on a loaded artifact raises inside predict_sale_price or
\* predict_rent_price, the request ends with the 500 of the handler (no
\* answer from the heuristic, one predict call), the object it ran on is
\* still the artifact-backed one it was, loaded once; and a request that
\* comes after a failure and whose predict does not raise is served.
C4_InferenceErrorFailsOnlyItsRequest ==
    /\ resp.handler \in PredictHandlers /\ resp.raised =>
         /\ resp.status = 500
         /\ resp.body.detail = "Prediction failed"
         /\ resp.body.predict_calls = 1
         /\ heap[resp.instance].model = "Trained"
         /\ heap[resp.instance].loads = 1
    /\ resp.handler \in PredictHandlers /\ ~resp.raised =>
         /\ resp.status = 200
         /\ resp.body.predict_calls = 1
    /\ resp.handler \in {"health_check", "model_info"} => resp.status = 200
    /\ failed => \E i \in 1..Len(heap) : heap[i].model = "Trained"

\* C4 witness: after some request failed, a later prediction on the same
\* artifact-backed object has been served
C4_Witness ==
    /\ resp.after_failure
    /\ resp.handler \in PredictHandlers
    /\ resp.status = 200
    /\ heap[resp.instance].model = "Trained"

----------------------------------------------------------------------------
(* Claims about the pipeline (SpecPure) *)

\* the area the pipeline computed with, quarter square feet
AreaOf(request_data) == Get(request_data, "area_sqft", 1000 * 4)

PerSqftGap ==
    p_out.result.price_per_sqft_aed * AreaOf(p_req)
      - 4 * p_out.result.predicted_price_aed

\* C6 as stated: price_per_sqft_aed * area_sqft equals predicted_price_aed
\* within floating-point tolerance (taken generously as one cent).
C6_PerSqftTimesAreaIsPrice ==
    p_out.kind \in {"sale", "rent"} => Abs(PerSqftGap) <= 4

\* C6 as amended: both outputs are rounded to 2 decimals, so
\* price_per_sqft_aed * area_sqft differs from predicted_price_aed by at most
\* 0.005 * area_sqft + 0.005 AED.
C6_PerSqftTimesAreaWithinRounding ==
    p_out.kind \in {"sale", "rent"} => 2 * Abs(PerSqftGap) <= AreaOf(p_req) + 4

\* C6 witness: the example sale, where 1068.33 * 1200 is 4 AED short of
\* 1,282,000
C6_Witness ==
    /\ p_out.kind = "sale" /\ p_req = ExampleRequest
    /\ p_out.self.model = "DummyModel"
    /\ PerSqftGap = 0 - 1600

\* C7: for the same object and attributes the annual rent is the sale
\* price times 0.08 (to the half cent of its rounding), with rental_type
\* "annual", for every contract_type other than "monthly"; 1,282,000 gives
\* 102,560.
C7_AnnualRentIsEightPercent ==
    p_out.kind = "rent" /\ p_out.contract_type # "monthly" =>
      LET sale == predict_sale_price(p_out.self, p_req, p_out.self.oracle)
      IN  /\ Abs(100 * p_out.result.predicted_price_aed
                   - 8 * sale.predicted_price_aed) <= 50
          /\ p_out.result.rental_type = "annual"
          /\ sale.predicted_price_aed = 128200000 =>
                p_out.result.predicted_price_aed = 10256000

\* C7 witness: a contract_type that is neither "annual" nor "monthly" got
\* the annual rent of the example, 102,560
C7_Witness ==
    /\ p_out.kind = "rent" /\ p_out.contract_type = "weekly"
    /\ p_req = ExampleRequest
    /\ p_out.result.predicted_price_aed = 10256000

\* C8: for the same object and attributes the monthly rent is the annual
\* rent divided by 12 (to within a cent), with rental_type "monthly" and
\* "annual" respectively.
C8_MonthlyIsAnnualOverTwelve ==
    p_out.kind = "rent" /\ p_out.contract_type = "monthly" =>
      LET annual == predict_rent_price(
                        p_out.self, [contract_type |-> "annual"] @@ p_req,
                        p_out.self.oracle)
      IN  /\ Abs(12 * p_out.result.predicted_price_aed
                   - annual.predicted_price_aed) <= 12
          /\ p_out.result.rental_type = "monthly"
          /\ annual.rental_type = "annual"

\* C8 witness: the example's monthly rent, 8,546.67
C8_Witness ==
    /\ p_out.kind = "rent" /\ p_out.contract_type = "monthly"
    /\ p_req = ExampleRequest
    /\ p_out.self.model = "DummyModel"
    /\ p_out.result.predicted_price_aed = 854667

\* C9: encode_features returns exactly 13 values, in the order bedrooms,
\* bathrooms, area_sqft, location_factor, property_factor, floor_normalized,
\* age_normalized, has_parking, has_balcony, has_gym, has_pool, near_metro,
\* furnished, which is the order of the training feature columns; encoding
\* the same input again gives the same vector.
C9_ThirteenFeaturesInOrder ==
    p_out.kind = "features" =>
      LET f == p_out.features
      IN  /\ Len(f) = 13
          /\ f[1] = Get(p_req, "bedrooms", 0)
          /\ f[2] = Get(p_req, "bathrooms", 0)
          /\ f[3] = AreaOf(p_req)
          /\ f[4] = Get(encode_location_map,
                        Get(p_req, "location", "dubai_marina"), 10)
          /\ f[5] = Get(property_type_map,
                        Get(p_req, "property_type", "apartment"), 10)
          /\ f[6] = Normalized(Get(p_req, "floor", NoneInt))
          /\ f[7] = Normalized(Get(p_req, "building_age_years", NoneInt))
          \* the six flags, under their column names; only has_parking
          \* (position 8) defaults to true
          /\ \A i \in 8..13 :
               f[i] = BoolInt(Get(p_req, feature_columns[i], i = 8))
          /\ feature_columns =
               << "bedrooms", "bathrooms", "area_sqft", "location_factor",
                  "property_factor", "floor_norm", "age_norm", "has_parking",
                  "has_balcony", "has_gym", "has_pool", "near_metro",
                  "furnished" >>
          /\ Len(feature_columns) = Len(f)
          /\ f = encode_features(p_req)

\* C9 witness: a penthouse in difc, 1 bed, 2 bath, 850.25 sqft, floor 10,
\* age 5, gym and metro, encoded
C9_Witness ==
    /\ p_out.kind = "features"
    /\ p_req = Request("penthouse", 1, 2, 3401, "difc", 10, 5,
                       {"has_gym", "near_metro"})
    /\ p_out.features = <<1, 2, 3401, 13, 18, 10, 5, 0, 0, 1, 0, 1, 0>>

\* the 11 entries of the location table
C10_TableLocations ==
    {"dubai_marina", "downtown", "business_bay", "jlt", "jbr", "difc",
     "palm_jumeirah", "emirates_hills", "arabian_ranches", "dubai_hills",
     "motor_city"}

\* C10: for every location outside the 11-entry table the encoded
\* location_factor is 1.0 and location_premium is 0.0, and for every location
\* the premium is the encoded factor minus 1 (the two tables agree).
C10_UnknownLocationIsNeutral ==
    p_out.kind = "sale" =>
      LET location == Get(p_req, "location", "dubai_marina")
      IN  /\ Cardinality(C10_TableLocations) = 11
          /\ location \notin C10_TableLocations =>
                /\ p_out.features[4] = 10
                /\ p_out.result.location_premium = 0
          /\ p_out.result.location_premium = (p_out.features[4] - 10) * 10

\* C10 witness: a sale prediction for a location outside the table
C10_Witness ==
    /\ p_out.kind = "sale"
    /\ "location" \in DOMAIN p_req /\ p_req.location = "sharjah"
    /\ p_out.result.location_premium = 0

\* floor_norm is feature 6 and age_norm feature 7 (the source's row[5], row[6])
FloorOf(r) == Get(r, "floor", NoneInt)
AgeOf(r) == Get(r, "building_age_years", NoneInt)

\* C11: encode_features encodes a floor or building_age_years of exactly 0
\* like an absent one, as 0.1 (5 fiftieths), and every positive value v as
\* v / 50.0 (v fiftieths); so the ground floor's normalized value is larger
\* than that of the same flat on any of the floors 1 to 4.
C11_ZeroEncodedAsAbsent ==
    p_out.kind = "features" =>
      /\ FloorOf(p_req) \in {0, NoneInt} => p_out.features[6] = 5
      /\ FloorOf(p_req) > 0 => p_out.features[6] = FloorOf(p_req)
      /\ AgeOf(p_req) \in {0, NoneInt} => p_out.features[7] = 5
      /\ AgeOf(p_req) > 0 => p_out.features[7] = AgeOf(p_req)
      /\ FloorOf(p_req) = 0 =>
            \A v \in 1..4 :
              p_out.features[6] > encode_features([p_req EXCEPT !.floor = v])[6]

\* C11 witness: a ground-floor flat in a three-year-old building has been
\* encoded: floor_norm is 0.1, age_norm is 3 / 50.0
C11_Witness ==
    /\ p_out.kind = "features"
    /\ FloorOf(p_req) = 0 /\ AgeOf(p_req) = 3
    /\ p_out.features[6] = 5 /\ p_out.features[7] = 3
    /\ encode_features([p_req EXCEPT !.floor = 4])[6] = 4

\* the dict the last predict_* call was given
SentRequest ==
    IF p_out.kind = "rent" /\ p_out.contract_type # UNSET
    THEN [contract_type |-> p_out.contract_type] @@ p_req
    ELSE p_req

\* other values of the five fields: each differs from the others in all five,
\* one has them absent or of an unknown type
OtherFiveFields ==
    { [property_type |-> "villa", bedrooms |-> 0, bathrooms |-> 1,
       floor |-> NoneInt, building_age_years |-> NoneInt],
      [property_type |-> "penthouse", bedrooms |-> 10, bathrooms |-> 10,
       floor |-> 40, building_age_years |-> 30],
      [property_type |-> "studio", bedrooms |-> 1, bathrooms |-> 2,
       floor |-> 0, building_age_years |-> 0],
      [property_type |-> "castle", bedrooms |-> 3, bathrooms |-> 3,
       floor |-> 2, building_age_years |-> 1] }

\* the same call on a request that differs from r in the five fields only
SamePredictOn(r) ==
    IF p_out.kind = "sale"
    THEN predict_sale_price(p_out.self, r, p_out.self.oracle)
    ELSE predict_rent_price(p_out.self, r, p_out.self.oracle)

\* C12: with the fallback heuristic active the predicted sale and rent
\* prices do not depend on property_type, bedrooms, bathrooms, floor or
\* building_age_years: the request just answered and every request that
\* agrees with it on location, area_sqft, the six amenity flags and
\* contract_type but carries other values in those five fields receive the
\* same predicted_price_aed and price_per_sqft_aed.  Every request is
\* compared with the same four others of its class, so any two requests of
\* one class receive the same prices.
C12_FiveFieldsDoNotMatter ==
    (p_out.kind \in {"sale", "rent"} /\ p_out.self.model = "DummyModel") =>
      \A five \in OtherFiveFields :
        LET other == SamePredictOn(five @@ SentRequest)
        IN  /\ other.predicted_price_aed = p_out.result.predicted_price_aed
            /\ other.price_per_sqft_aed = p_out.result.price_per_sqft_aed

\* C12 witness: the fallback has priced a two-bedroom penthouse on floor 10
\* at AED 1,282,000.00, the price of the villa with no bedroom and no floor
\* given that shares its location, area and amenities
C12_Witness ==
    /\ p_out.kind = "sale" /\ p_out.self.model = "DummyModel"
    /\ p_req = Request("penthouse", 2, 2, 1200 * 4, "dubai_marina", 10, 5,
                       {"has_parking"})
    /\ p_out.result.predicted_price_aed = 128200000
    /\ predict_sale_price(p_out.self,
          Request("villa", 0, 1, 1200 * 4, "dubai_marina", NoneInt, NoneInt,
                  {"has_parking"}), 0).predicted_price_aed = 128200000

====
